---- MODULE Spec2Model ----
(***************************************************************************)
(* Signed-URL worker (src/index.ts): a fetch handler that serves public    *)
(* objects under /assets/, issues HMAC-signed URLs under /generate/, and   *)
(* serves objects under /uploads/ and /invoices/ only to requests carrying *)
(* an unexpired token whose MAC matches the requested path.                *)
(*                                                                         *)
(* Strings are sequences of one-character strings; byte arrays are         *)
(* sequences of integers 0..255.                                           *)
(***************************************************************************)
EXTENDS Integers, Sequences, FiniteSets, TLC

\* ------------------------------------------------------------------ bounds
\* Clock readings fall in the seconds 0..MaxSec and EXPIRY..EXPIRY+MaxSec+1.
MaxSec == 1

\* ------------------------------------------------------- program constants
EXPIRY == 600
MsPerSec == 1000
\* HMAC with SHA-256 yields 32 bytes.
MacLen == 32
\* Number(s) of a non-numeric string; `${NaN}` prints as "NaN".
NaN == -1
\* env.SECRET_DATA when no secret is bound to the worker.
Undefined == <<"undefined">>

\* ------------------------------------------------------------------ strings
\* Printable ASCII, code 32 first; the double quote, the backslash and
\* the backtick are spelled out.
Ascii == <<
    " ", "!", "QUOTE", "#", "$", "%", "&", "'", "(", ")", "*", "+", ",", "-", ".", "/",
    "0", "1", "2", "3", "4", "5", "6", "7", "8", "9", ":", ";", "<", "=", ">", "?",
    "@", "A", "B", "C", "D", "E", "F", "G", "H", "I", "J", "K", "L", "M", "N", "O",
    "P", "Q", "R", "S", "T", "U", "V", "W", "X", "Y", "Z", "[", "BACKSLASH", "]", "^", "_",
    "BACKTICK", "a", "b", "c", "d", "e", "f", "g", "h", "i", "j", "k", "l", "m", "n", "o",
    "p", "q", "r", "s", "t", "u", "v", "w", "x", "y", "z", "{", "|", "}", "~" >>

Chars == {Ascii[i] : i \in 1..Len(Ascii)}

CharCode == [c \in Chars |-> 31 + (CHOOSE i \in 1..Len(Ascii) : Ascii[i] = c)]

CharOf(code) == Ascii[code - 31]

DigitChars == <<"0", "1", "2", "3", "4", "5", "6", "7", "8", "9">>

HexChars == <<"0", "1", "2", "3", "4", "5", "6", "7", "8", "9",
              "A", "B", "C", "D", "E", "F">>

IsDigit(c) == \E i \in 1..10 : DigitChars[i] = c

DigitValue(c) == (CHOOSE i \in 1..10 : DigitChars[i] = c) - 1

RECURSIVE DecimalString(_)
\* `${n}` for a non-negative integer n.
DecimalString(n) ==
    IF n < 10 THEN <<DigitChars[n + 1]>>
    ELSE DecimalString(n \div 10) \o <<DigitChars[(n % 10) + 1]>>

\* `${v}` for a number v.
NumberToString(v) == IF v = NaN THEN <<"N", "a", "N">> ELSE DecimalString(v)

RECURSIVE DigitsValue(_)
DigitsValue(s) ==
    IF s = <<>> THEN 0
    ELSE 10 * DigitsValue(SubSeq(s, 1, Len(s) - 1)) + DigitValue(s[Len(s)])

\* Number(s): the empty string is 0, a string of decimal digits is its value
\* (leading zeros allowed), anything else over the modelled alphabet is NaN.
ToNumber(s) ==
    IF \A i \in 1..Len(s) : IsDigit(s[i]) THEN DigitsValue(s) ELSE NaN

\* s.startsWith(prefix)
StartsWith(s, prefix) ==
    /\ Len(s) >= Len(prefix)
    /\ SubSeq(s, 1, Len(prefix)) = prefix

\* s.substring(1)
Substring1(s) == SubSeq(s, 2, Len(s))

\* The first index of s holding a character of set cs; 0 when there is none.
FirstIndex(s, cs) ==
    LET hits == {i \in 1..Len(s) : s[i] \in cs}
    IN  IF hits = {} THEN 0 ELSE CHOOSE i \in hits : \A j \in hits : i <= j

RECURSIVE Split(_, _)
\* s.split(sep) for a one-character separator: every separator splits.
Split(s, sep) ==
    LET k == FirstIndex(s, {sep})
    IN  IF k = 0 THEN <<s>>
        ELSE <<SubSeq(s, 1, k - 1)>> \o Split(SubSeq(s, k + 1, Len(s)), sep)

\* encoder.encode(s): UTF-8 of an ASCII string.
Encode(s) == [i \in 1..Len(s) |-> CharCode[s[i]]]

\* ------------------------------------------------------------------- base64
Base64Chars == <<
    "A", "B", "C", "D", "E", "F", "G", "H", "I", "J", "K", "L", "M", "N", "O", "P",
    "Q", "R", "S", "T", "U", "V", "W", "X", "Y", "Z", "a", "b", "c", "d", "e", "f",
    "g", "h", "i", "j", "k", "l", "m", "n", "o", "p", "q", "r", "s", "t", "u", "v",
    "w", "x", "y", "z", "0", "1", "2", "3", "4", "5", "6", "7", "8", "9", "+", "/" >>

Base64Set == {Base64Chars[i] : i \in 1..64} \cup {"_"}

\* Index 0..63 of a base64 character; the URL-safe "_" is read as "/".
Base64Index ==
    [c \in Base64Set |->
        IF c = "_" THEN 63 ELSE (CHOOSE i \in 1..64 : Base64Chars[i] = c) - 1]

\* Byte i of b, 0 past its end.
ByteAt(b, i) == IF i <= Len(b) THEN b[i] ELSE 0

\* Buffer.from(bytes).toString("base64"): standard alphabet, "=" padding.
\* Output character j belongs to the group of three bytes starting at b[k].
Base64Encode(b) ==
    [j \in 1..(4 * ((Len(b) + 2) \div 3)) |->
        LET k == 3 * ((j - 1) \div 4) + 1
            pos == (j - 1) % 4
        IN  IF pos = 0 THEN Base64Chars[(b[k] \div 4) + 1]
            ELSE IF pos = 1
                 THEN Base64Chars[((b[k] % 4) * 16 + (ByteAt(b, k + 1) \div 16)) + 1]
            ELSE IF pos = 2
                 THEN IF k + 1 > Len(b) THEN "="
                      ELSE Base64Chars[((b[k + 1] % 16) * 4
                                        + (ByteAt(b, k + 2) \div 64)) + 1]
            ELSE IF k + 2 > Len(b) THEN "="
                 ELSE Base64Chars[(b[k + 2] % 64) + 1]]

\* The base64 digits of s up to the first "=", other characters skipped.
Base64Legal(s) ==
    LET stop == FirstIndex(s, {"="})
        head == IF stop = 0 THEN s ELSE SubSeq(s, 1, stop - 1)
        legal == SelectSeq(head, LAMBDA c : c \in Base64Set)
    IN  [i \in 1..Len(legal) |-> Base64Index[legal[i]]]

\* The bytes of a sequence of 6-bit digits; a lone trailing digit is dropped.
Base64Groups(d) ==
    [j \in 1..((Len(d) * 6) \div 8) |->
        LET k == 4 * ((j - 1) \div 3) + 1
            pos == (j - 1) % 3
        IN  IF pos = 0 THEN d[k] * 4 + (d[k + 1] \div 16)
            ELSE IF pos = 1 THEN (d[k + 1] % 16) * 16 + (d[k + 2] \div 4)
            ELSE (d[k + 2] % 4) * 64 + d[k + 3]]

\* Thrown by Buffer.from for a first argument that is no string.
TypeError == <<"TypeError">>

\* Buffer.from(s, "base64"): a value that is no string throws; a string is
\* decoded leniently (characters outside the alphabet are skipped, decoding
\* stops at "=") and never throws.
BufferFromBase64(s) ==
    IF s = Undefined THEN TypeError ELSE Base64Groups(Base64Legal(s))

\* ------------------------------------------------------- query string codec
\* Characters the urlencoded serialiser leaves as they are.
Unreserved ==
    {"*", "-", ".", "_"}
    \cup {c \in Chars : \/ (CharCode[c] >= 48 /\ CharCode[c] <= 57)
                        \/ (CharCode[c] >= 65 /\ CharCode[c] <= 90)
                        \/ (CharCode[c] >= 97 /\ CharCode[c] <= 122)}

RECURSIVE FormEncode(_)
\* URLSearchParams serialisation of a value (application/x-www-form-urlencoded).
FormEncode(s) ==
    LET k == FirstIndex(s, Chars \ Unreserved)
    IN  IF k = 0 THEN s
        ELSE SubSeq(s, 1, k - 1)
             \o (IF s[k] = " " THEN <<"+">>
                 ELSE <<"%", HexChars[(CharCode[s[k]] \div 16) + 1],
                             HexChars[(CharCode[s[k]] % 16) + 1]>>)
             \o FormEncode(SubSeq(s, k + 1, Len(s)))

IsHex(c) == \E i \in 1..16 : HexChars[i] = c

HexValue(c) == (CHOOSE i \in 1..16 : HexChars[i] = c) - 1

RECURSIVE FormDecode(_)
\* URLSearchParams parsing of a value: "+" is a space, %XX is a byte.
FormDecode(s) ==
    LET k == FirstIndex(s, {"+", "%"})
    IN  IF k = 0 THEN s
        ELSE IF s[k] = "+"
             THEN SubSeq(s, 1, k - 1) \o <<" ">>
                  \o FormDecode(SubSeq(s, k + 1, Len(s)))
        ELSE IF /\ Len(s) >= k + 2
                /\ IsHex(s[k + 1])
                /\ IsHex(s[k + 2])
                /\ 16 * HexValue(s[k + 1]) + HexValue(s[k + 2]) >= 32
                /\ 16 * HexValue(s[k + 1]) + HexValue(s[k + 2]) <= 126
             THEN SubSeq(s, 1, k - 1)
                  \o <<CharOf(16 * HexValue(s[k + 1]) + HexValue(s[k + 2]))>>
                  \o FormDecode(SubSeq(s, k + 3, Len(s)))
        ELSE SubSeq(s, 1, k) \o FormDecode(SubSeq(s, k + 1, Len(s)))

\* ------------------------------------------------------------------- crypto
DefaultSecret == <<"m", "y", " ", "s", "e", "c", "r", "e", "t", " ", "s", "y", "m", "m", "e", "t", "r", "i", "c", " ", "k", "e", "y">>

RECURSIVE Sum(_)
Sum(b) == IF b = <<>> THEN 0 ELSE b[1] + Sum(Tail(b))

\* crypto.subtle.importKey("raw", keyData, HMAC/SHA-256): the key is its bytes.
ImportKey(keyData) == keyData

\* crypto.subtle.sign("HMAC", key, data).  HMAC-SHA256 is idealised as a
\* collision-free tag of MacLen bytes: one byte standing for the key, the
\* message bytes, zero padding.  Messages are shorter than MacLen and hold no
\* zero byte, so distinct (key, message) pairs of the model get distinct tags.
SubtleSign(key, data) ==
    [i \in 1..MacLen |->
        IF i = 1 THEN Sum(key) % 256
        ELSE IF i - 1 <= Len(data) THEN data[i - 1]
        ELSE 0]

\* A comparison that stops one byte short.
SubtleVerify_SkipLast(key, signature, data) ==
    /\ Len(signature) = MacLen
    /\ \A i \in 1..(MacLen - 1) : signature[i] = SubtleSign(key, data)[i]

\* crypto.subtle.verify("HMAC", key, signature, data)
SubtleVerify(key, signature, data) == signature = SubtleSign(key, data)

\* ----------------------------------------------------------- URL and query
RECURSIVE Join(_, _)
Join(parts, sep) ==
    IF Len(parts) = 0 THEN <<>>
    ELSE IF Len(parts) = 1 THEN parts[1]
    ELSE parts[1] \o <<sep>> \o Join(Tail(parts), sep)

\* The text before / after the first "=" of one name=value pair.
PairName(p) ==
    IF FirstIndex(p, {"="}) = 0 THEN p
    ELSE SubSeq(p, 1, FirstIndex(p, {"="}) - 1)

PairValue(p) ==
    IF FirstIndex(p, {"="}) = 0 THEN <<>>
    ELSE SubSeq(p, FirstIndex(p, {"="}) + 1, Len(p))

\* The name=value pairs of url.search ("" or "?a=b&c=d").
SearchPairs(search) ==
    IF Len(search) <= 1 THEN <<>> ELSE Split(Tail(search), "&")

VerifyName == <<"v", "e", "r", "i", "f", "y">>

\* url.searchParams.has("verify")
SearchHas(search) ==
    \E i \in 1..Len(SearchPairs(search)) :
        PairName(SearchPairs(search)[i]) = VerifyName

\* url.searchParams.get("verify"): the first verify parameter, decoded.
SearchGet(search) ==
    LET pairs == SearchPairs(search)
        k == CHOOSE i \in 1..Len(pairs) :
                 /\ PairName(pairs[i]) = VerifyName
                 /\ \A j \in 1..(i - 1) : PairName(pairs[j]) # VerifyName
    IN  FormDecode(PairValue(pairs[k]))

\* url.searchParams.set("verify", value), then url.search: the first verify
\* parameter is replaced and later ones dropped, or the parameter is appended.
SearchSet(search, value) ==
    LET pairs == SearchPairs(search)
        new == VerifyName \o <<"=">> \o FormEncode(value)
        first == CHOOSE i \in 1..Len(pairs) :
                     /\ PairName(pairs[i]) = VerifyName
                     /\ \A j \in 1..(i - 1) : PairName(pairs[j]) # VerifyName
        kept == IF SearchHas(search)
                THEN SelectSeq([i \in 1..Len(pairs) |->
                                   IF i = first THEN new
                                   ELSE IF PairName(pairs[i]) = VerifyName
                                        THEN <<>> ELSE pairs[i]],
                               LAMBDA p : p # <<>>)
                ELSE Append(pairs, new)
    IN  <<"?">> \o Join(kept, "&")

\* s.replace(pattern, replacement): the first occurrence only.
ReplaceFirst(s, pattern, replacement) ==
    IF \E i \in 1..(Len(s) - Len(pattern) + 1) :
           SubSeq(s, i, i + Len(pattern) - 1) = pattern
    THEN LET k == CHOOSE i \in 1..(Len(s) - Len(pattern) + 1) :
                      /\ SubSeq(s, i, i + Len(pattern) - 1) = pattern
                      /\ \A j \in 1..(i - 1) :
                             SubSeq(s, j, j + Len(pattern) - 1) # pattern
         IN  SubSeq(s, 1, k - 1) \o replacement
             \o SubSeq(s, k + Len(pattern), Len(s))
    ELSE s

\* ------------------------------------------------------------ the handler
AssetsPrefix == <<"/", "a", "s", "s", "e", "t", "s", "/">>
GeneratePrefix == <<"/", "g", "e", "n", "e", "r", "a", "t", "e", "/">>
UploadsPrefix == <<"/", "u", "p", "l", "o", "a", "d", "s", "/">>
InvoicesPrefix == <<"/", "i", "n", "v", "o", "i", "c", "e", "s", "/">>

\* /uploads/ served like /assets/, with no token asked for.
Branch_UploadsPublic(path, pathname) ==
    IF StartsWith(path, AssetsPrefix) \/ StartsWith(path, UploadsPrefix)
    THEN "assets"
    ELSE IF StartsWith(pathname, GeneratePrefix) THEN "generate"
    ELSE IF StartsWith(path, InvoicesPrefix) THEN "protected"
    ELSE "deny"

\* Prefixes tested without their closing slash.
Branch_NoSlash(path, pathname) ==
    LET Bare(prefix) == SubSeq(prefix, 1, Len(prefix) - 1)
    IN  IF StartsWith(path, Bare(AssetsPrefix)) THEN "assets"
        ELSE IF StartsWith(pathname, Bare(GeneratePrefix)) THEN "generate"
        ELSE IF \/ StartsWith(path, Bare(UploadsPrefix))
                \/ StartsWith(path, Bare(InvoicesPrefix))
             THEN "protected"
        ELSE "deny"

\* s contains part (includes in place of startsWith).
Includes(s, part) ==
    \E i \in 1..(Len(s) - Len(part) + 1) : SubSeq(s, i, i + Len(part) - 1) = part

Branch_Includes(path, pathname) ==
    IF Includes(path, AssetsPrefix) THEN "assets"
    ELSE IF Includes(pathname, GeneratePrefix) THEN "generate"
    ELSE IF Includes(path, UploadsPrefix) \/ Includes(path, InvoicesPrefix)
         THEN "protected"
    ELSE "deny"

\* The branch of fetch a request takes: `path` is url.pathname as first read,
\* `pathname` is url.pathname when the second test runs.
Branch(path, pathname) ==
    IF StartsWith(path, AssetsPrefix) THEN "assets"
    ELSE IF StartsWith(pathname, GeneratePrefix) THEN "generate"
    ELSE IF StartsWith(path, UploadsPrefix) \/ StartsWith(path, InvoicesPrefix)
         THEN "protected"
    ELSE "deny"

\* The leading slash kept.
ObjectKey_Whole(path) == path

\* path.substring(1)
ObjectKey(path) == Substring1(path)

\* Date.now() taken as it is, in milliseconds.
Timestamp_Millis(now) == now

\* Math.floor(now / 1000)
Timestamp(now) == now \div MsPerSec

\* Only the timestamp signed.
DataToAuthenticate_NoPath(pathname, timestamp) == NumberToString(timestamp)

\* `${url.pathname}${timestamp}`
DataToAuthenticate(pathname, timestamp) == pathname \o NumberToString(timestamp)

\* `${timestamp}-${base64Mac}`
TokenText(timestamp, mac) ==
    NumberToString(timestamp) \o <<"-">> \o Base64Encode(mac)

\* const [timestamp, hmac] = verify.split("-")
TokenTimestamp(verify) == Split(verify, "-")[1]

TokenHmac(verify) ==
    IF Len(Split(verify, "-")) >= 2 THEN Split(verify, "-")[2] ELSE Undefined

\* >= in place of >.
IsExpired_AtBoundary(now, assertedTimestamp) ==
    /\ assertedTimestamp # NaN
    /\ now >= (assertedTimestamp + EXPIRY) * MsPerSec

\* Date.now() compared without the division by 1000.
IsExpired_Unscaled(now, assertedTimestamp) ==
    /\ assertedTimestamp # NaN
    /\ now > assertedTimestamp + EXPIRY

\* EXPIRY taken for milliseconds and scaled once more.
IsExpired_ScaledExpiry(now, assertedTimestamp) ==
    /\ assertedTimestamp # NaN
    /\ now > (assertedTimestamp + EXPIRY * MsPerSec) * MsPerSec

\* Date.now() / 1000 > assertedTimestamp + EXPIRY, for now in milliseconds;
\* every comparison with NaN is false.
IsExpired(now, assertedTimestamp) ==
    /\ assertedTimestamp # NaN
    /\ now > (assertedTimestamp + EXPIRY) * MsPerSec

\* No default: a missing secret becomes the empty key.
SecretKeyData_EmptyFallback(secret) ==
    IF secret = Undefined THEN <<>> ELSE Encode(secret)

\* env.SECRET_DATA ?? "my secret symmetric key", encoded
SecretKeyData(secret) ==
    Encode(IF secret = Undefined THEN DefaultSecret ELSE secret)

NoUrl == [pathname |-> <<>>, search |-> <<>>]

\* A response: status, body text, the key of the object streamed as body,
\* Cache-Control, the signed URL in the body, the date in the body (ms).
Response(status, reason, object, cache, url, date) ==
    [status |-> status, reason |-> reason, object |-> object,
     cache |-> cache, url |-> url, date |-> date]

NoResponse == Response(0, "", <<>>, "", NoUrl, 0)

Forbidden(reason) == Response(403, reason, <<>>, "", NoUrl, 0)

\* `URL expired at ${new Date((assertedTimestamp + EXPIRY) * 1000)}`
Expired(assertedTimestamp) ==
    Response(403, "URL expired at", <<>>, "", NoUrl,
             (assertedTimestamp + EXPIRY) * MsPerSec)

NotFound == Response(404, "Object Not Found", <<>>, "", NoUrl, 0)

\* new Response(object.body, {headers}) or the 404 for a null object
ObjectResponse(objects, key, cache) ==
    IF key \in objects THEN Response(200, "", key, cache, NoUrl, 0) ELSE NotFound

\* ------------------------------------------------------------------ inputs
RequestPaths ==
    { <<"/", "a", "s", "s", "e", "t", "s", "/", "a">>,
      <<"/", "a", "s", "s", "e", "t", "s", "/", "b">>,
      <<"/", "a", "s", "s", "e", "t", "s">>,
      <<"/", "g", "e", "n", "e", "r", "a", "t", "e", "/", "u", "p", "l", "o", "a", "d", "s", "/", "a">>,
      <<"/", "g", "e", "n", "e", "r", "a", "t", "e", "/", "u", "p", "l", "o", "a", "d", "s", "/", "a", "1">>,
      <<"/", "g", "e", "n", "e", "r", "a", "t", "e", "/", "a", "s", "s", "e", "t", "s", "/", "a">>,
      <<"/", "u", "p", "l", "o", "a", "d", "s", "/", "a">>,
      <<"/", "u", "p", "l", "o", "a", "d", "s", "/", "a", "1">>,
      <<"/", "i", "n", "v", "o", "i", "c", "e", "s", "/", "a">>,
      <<"/", "o", "t", "h", "e", "r", "/", "x">> }

\* Keys of the objects in the bucket.
BucketKeys ==
    { <<"a", "s", "s", "e", "t", "s", "/", "a">>,
      <<"u", "p", "l", "o", "a", "d", "s", "/", "a">>,
      <<"i", "n", "v", "o", "i", "c", "e", "s", "/", "a">> }

Secrets == {Undefined, <<"k">>}

Seconds == (0..MaxSec) \cup (EXPIRY..(EXPIRY + MaxSec + 1))

\* Values Date.now() may return, in milliseconds: the whole seconds, and half
\* a second past the first second and past the first second after EXPIRY.
ClockPoints ==
    {s * MsPerSec : s \in Seconds} \cup {s * MsPerSec + 500 : s \in {0, EXPIRY}}

\* byte with bit `bit` (0..7) flipped
FlipBit(byte, bit) ==
    IF (byte \div (2 ^ bit)) % 2 = 1 THEN byte - 2 ^ bit ELSE byte + 2 ^ bit

\* The token with bit `bit` of MAC byte `i` flipped, re-encoded.
Tampered(token, i, bit) ==
    LET mac == BufferFromBase64(TokenHmac(token))
    IN  TokenTimestamp(token) \o <<"-">>
        \o Base64Encode([mac EXCEPT ![i] = FlipBit(mac[i], bit)])

\* The token with the last character of the path it was issued for moved in
\* front of its timestamp.
Shifted(pathname, token) ==
    <<pathname[Len(pathname)]>> \o token

\* Values of the verify parameter a client holding the signed URL `u` may send.
VerifyValues(u) ==
    LET token == SearchGet(u.search)
    IN  { token,
          Tampered(token, 1, 0),
          Tampered(token, MacLen, 7),
          TokenTimestamp(token),
          TokenTimestamp(token) \o <<"-">>,
          TokenTimestamp(token) \o <<"-", "!", "!">>,
          Shifted(u.pathname, token),
          token \o <<"-", "x">>,
          <<"0">> \o token }

OtherSearch == <<"?", "x", "=", "1">>

\* Query strings of incoming requests: none, one without verify, and the
\* verify values built from the signed URLs issued so far.
Searches(urls) ==
    {<<>>, OtherSearch}
    \cup {SearchSet(<<>>, v) : v \in UNION {VerifyValues(u) : u \in urls}}

\* ------------------------------------------------------------------- state
VARIABLES
    clock,       \* the last value Date.now() returned, in milliseconds
    secretData,  \* env.SECRET_DATA
    bucket,      \* keys of the objects in env.THE_R2BUCKET
    issued,      \* the signed URL the client holds, if any:
                 \* [pathname, search, at, key]
    req,         \* the request being run: position and locals of fetch
    peer         \* a second request, suspended at an await while req runs

vars == <<clock, secretData, bucket, issued, req, peer>>

Idle ==
    [pc |-> "idle", request |-> NoUrl, url |-> NoUrl, path |-> <<>>,
     secretKeyData |-> <<>>,
     key |-> <<>>, branch |-> "none", timestamp |-> 0,
     dataToAuthenticate |-> <<>>, receivedMac |-> <<>>, verified |-> FALSE,
     now |-> 0, gets |-> <<>>, verifyCalls |-> 0, expiryChecks |-> 0,
     response |-> NoResponse]

Init ==
    /\ clock = 0
    /\ secretData \in Secrets
    /\ bucket = BucketKeys
    /\ issued = {}
    /\ req = Idle
    /\ peer = Idle

\* The signed URLs of `issued`, without the time they were issued at and the
\* key they were signed with.
IssuedUrls == {[pathname |-> i.pathname, search |-> i.search] : i \in issued}

\* fetch is entered (lines 13-19): the secret is read and encoded.
Receive(pathname, search) ==
    /\ req.pc = "idle"
    /\ req' = [Idle EXCEPT !.pc = "importKey",
                           !.request = [pathname |-> pathname, search |-> search],
                           !.url = [pathname |-> pathname, search |-> search],
                           !.secretKeyData = SecretKeyData(secretData)]
    /\ UNCHANGED <<clock, secretData, bucket, issued, peer>>

\* Imported with url held in one place for all requests: the path read is the
\* one the request in flight beside this one stored, if there is one.
Imported_SharedUrl ==
    LET pathname == IF peer.pc \notin {"idle", "done", "thrown"}
                    THEN peer.url.pathname ELSE req.url.pathname
    IN  [req EXCEPT !.key = ImportKey(req.secretKeyData),
                    !.path = pathname,
                    !.branch = Branch(pathname, pathname)]

\* After importKey (lines 22-31): key, url and path are set.
Imported ==
    [req EXCEPT !.key = ImportKey(req.secretKeyData),
                !.path = req.url.pathname,
                !.branch = Branch(req.url.pathname, req.url.pathname)]

\* /assets/ (lines 34-36): the object is requested from the bucket.
AssetsStart ==
    /\ req.pc = "importKey"
    /\ Imported.branch = "assets"
    /\ req' = [Imported EXCEPT !.pc = "assetsGet",
                               !.gets = Append(@, ObjectKey(Imported.path))]
    /\ UNCHANGED <<clock, secretData, bucket, issued, peer>>

\* /assets/ (lines 38-47): 404 or the object.
AssetsRespond ==
    /\ req.pc = "assetsGet"
    /\ req' = [req EXCEPT !.pc = "done",
                          !.response = ObjectResponse(bucket, req.gets[Len(req.gets)],
                                                      "public, max-age=86400")]
    /\ UNCHANGED <<clock, secretData, bucket, issued, peer>>

\* /generate/ (lines 53-67): the path is rewritten, the clock read and the
\* message handed to sign.
GenerateStart ==
    /\ req.pc = "importKey"
    /\ Imported.branch = "generate"
    /\ \E t \in ClockPoints :
        /\ t >= clock
        /\ clock' = t
        /\ LET pathname == ReplaceFirst(Imported.url.pathname, GeneratePrefix, <<"/">>)
           IN  req' = [Imported EXCEPT
                          !.pc = "sign",
                          !.url.pathname = pathname,
                          !.now = t,
                          !.timestamp = Timestamp(t),
                          !.dataToAuthenticate =
                              DataToAuthenticate(pathname, Timestamp(t))]
    /\ UNCHANGED <<secretData, bucket, issued, peer>>

\* /generate/ (lines 63-75): the MAC is encoded into the verify parameter and
\* the signed URL returned; the client keeps it, or keeps the one it held.
GenerateRespond ==
    /\ req.pc = "sign"
    /\ LET mac == SubtleSign(req.key, Encode(req.dataToAuthenticate))
           search == SearchSet(req.url.search, TokenText(req.timestamp, mac))
           url == [pathname |-> req.url.pathname, search |-> search]
       IN  /\ req' = [req EXCEPT !.pc = "done",
                                 !.url = url,
                                 !.response = Response(200, "", <<>>, "", url, 0)]
           /\ issued' \in {issued, {[pathname |-> url.pathname,
                                     search |-> url.search,
                                     at |-> req.now,
                                     key |-> req.key]}}
    /\ UNCHANGED <<clock, secretData, bucket, peer>>

\* /uploads/, /invoices/ (lines 79-81): no verify parameter.
ProtectedMissing ==
    /\ req.pc = "importKey"
    /\ Imported.branch = "protected"
    /\ ~SearchHas(req.url.search)
    /\ req' = [Imported EXCEPT !.pc = "done",
                               !.response = Forbidden("Authentication required")]
    /\ UNCHANGED <<clock, secretData, bucket, issued, peer>>

\* ProtectedStart with the bucket asked for the object before verify returns.
ProtectedStart_Prefetch ==
    /\ req.pc = "importKey"
    /\ Imported.branch = "protected"
    /\ SearchHas(req.url.search)
    /\ LET verify == SearchGet(req.url.search)
           assertedTimestamp == ToNumber(TokenTimestamp(verify))
           receivedMac == BufferFromBase64(TokenHmac(verify))
           parsed == [Imported EXCEPT
                         !.timestamp = assertedTimestamp,
                         !.gets = Append(@, ObjectKey(Imported.path)),
                         !.dataToAuthenticate =
                             DataToAuthenticate(Imported.url.pathname,
                                                assertedTimestamp)]
       IN  req' = IF receivedMac = TypeError
                  THEN [parsed EXCEPT !.pc = "thrown"]
                  ELSE [parsed EXCEPT !.pc = "verify",
                                      !.receivedMac = receivedMac,
                                      !.verifyCalls = @ + 1]
    /\ UNCHANGED <<clock, secretData, bucket, issued, peer>>

\* /uploads/, /invoices/ (lines 83-101): the token is split and decoded and
\* the MAC handed to verify; Buffer.from throws when there is no second part.
ProtectedStart ==
    /\ req.pc = "importKey"
    /\ Imported.branch = "protected"
    /\ SearchHas(req.url.search)
    /\ LET verify == SearchGet(req.url.search)
           assertedTimestamp == ToNumber(TokenTimestamp(verify))
           receivedMac == BufferFromBase64(TokenHmac(verify))
           parsed == [Imported EXCEPT
                         !.timestamp = assertedTimestamp,
                         !.dataToAuthenticate =
                             DataToAuthenticate(Imported.url.pathname,
                                                assertedTimestamp)]
       IN  req' = IF receivedMac = TypeError
                  THEN [parsed EXCEPT !.pc = "thrown"]
                  ELSE [parsed EXCEPT !.pc = "verify",
                                      !.receivedMac = receivedMac,
                                      !.verifyCalls = @ + 1]
    /\ UNCHANGED <<clock, secretData, bucket, issued, peer>>

\* ProtectedInvalid with the expiry looked at before the MAC is reported.
ProtectedInvalid_ExpiryFirst ==
    /\ req.pc = "verify"
    /\ ~SubtleVerify(req.key, req.receivedMac, Encode(req.dataToAuthenticate))
    /\ \E t \in ClockPoints :
        /\ t >= clock
        /\ clock' = t
        /\ req' = IF IsExpired(t, req.timestamp)
                  THEN [req EXCEPT !.pc = "done",
                                   !.now = t,
                                   !.expiryChecks = @ + 1,
                                   !.response = Expired(req.timestamp)]
                  ELSE [req EXCEPT !.pc = "done",
                                   !.response = Forbidden("Invalid MAC")]
    /\ UNCHANGED <<secretData, bucket, issued, peer>>

\* /uploads/, /invoices/ (lines 96-105): the MAC does not verify.
ProtectedInvalid ==
    /\ req.pc = "verify"
    /\ ~SubtleVerify(req.key, req.receivedMac, Encode(req.dataToAuthenticate))
    /\ req' = [req EXCEPT !.pc = "done",
                          !.response = Forbidden("Invalid MAC")]
    /\ UNCHANGED <<clock, secretData, bucket, issued, peer>>

\* /uploads/, /invoices/ (lines 96-117): the MAC verifies; the clock is read
\* and the request either expires or asks the bucket for the object.
ProtectedVerified ==
    /\ req.pc = "verify"
    /\ SubtleVerify(req.key, req.receivedMac, Encode(req.dataToAuthenticate))
    /\ \E t \in ClockPoints :
        /\ t >= clock
        /\ clock' = t
        /\ LET checked == [req EXCEPT !.verified = TRUE,
                                      !.now = t,
                                      !.expiryChecks = @ + 1]
           IN  req' = IF IsExpired(t, req.timestamp)
                      THEN [checked EXCEPT !.pc = "done",
                                           !.response = Expired(req.timestamp)]
                      ELSE [checked EXCEPT !.pc = "protectedGet",
                                           !.gets = Append(@, ObjectKey(req.path))]
    /\ UNCHANGED <<secretData, bucket, issued, peer>>

\* ProtectedRespond with one-time tokens: the object served is removed.
ProtectedRespond_Consume ==
    /\ req.pc = "protectedGet"
    /\ req' = [req EXCEPT !.pc = "done",
                          !.response = ObjectResponse(bucket, req.gets[Len(req.gets)],
                                                      "private, no-store")]
    /\ bucket' = bucket \ {req.gets[Len(req.gets)]}
    /\ UNCHANGED <<clock, secretData, issued, peer>>

\* /uploads/, /invoices/ (lines 119-128): 404 or the object.
ProtectedRespond ==
    /\ req.pc = "protectedGet"
    /\ req' = [req EXCEPT !.pc = "done",
                          !.response = ObjectResponse(bucket, req.gets[Len(req.gets)],
                                                      "private, no-store")]
    /\ UNCHANGED <<clock, secretData, bucket, issued, peer>>

\* Any other path (line 132).
Deny ==
    /\ req.pc = "importKey"
    /\ Imported.branch = "deny"
    /\ req' = [Imported EXCEPT !.pc = "done",
                               !.response = Forbidden("Access denied")]
    /\ UNCHANGED <<clock, secretData, bucket, issued, peer>>

\* The response (or the exception) has left; the next request may come.
Finish ==
    /\ req.pc \in {"done", "thrown"}
    /\ req' = Idle
    /\ UNCHANGED <<clock, secretData, bucket, issued, peer>>

Next ==
    \/ \E pathname \in RequestPaths, search \in Searches(IssuedUrls) :
           Receive(pathname, search)
    \/ AssetsStart
    \/ AssetsRespond
    \/ GenerateStart
    \/ GenerateRespond
    \/ ProtectedMissing
    \/ ProtectedStart
    \/ ProtectedInvalid
    \/ ProtectedVerified
    \/ ProtectedRespond
    \/ Deny
    \/ Finish

Spec == Init /\ [][Next]_vars

\* The worker is deployed again with another secret; no request is in flight.
Redeploy ==
    /\ req.pc = "idle"
    /\ secretData' \in Secrets \ {secretData}
    /\ UNCHANGED <<clock, bucket, issued, req, peer>>

\* Requests handled one at a time by a worker whose secret may be replaced
\* between them.
SecretsNext == Next \/ Redeploy

SpecSecrets == Init /\ [][SecretsNext]_vars

\* Requests that run side by side: one for each branch without a query
\* string, and the Protected one with the token of a signed URL and with that
\* token with one MAC bit flipped.
ConcRequests(urls) ==
    { [pathname |-> p, search |-> <<>>] :
        p \in { <<"/", "a", "s", "s", "e", "t", "s", "/", "a">>,
                <<"/", "g", "e", "n", "e", "r", "a", "t", "e", "/", "u", "p", "l", "o", "a", "d", "s", "/", "a">>,
                <<"/", "u", "p", "l", "o", "a", "d", "s", "/", "a">>,
                <<"/", "o", "t", "h", "e", "r", "/", "x">> } }
    \cup { [pathname |-> <<"/", "u", "p", "l", "o", "a", "d", "s", "/", "a">>,
            search |-> SearchSet(<<>>, v)] :
             v \in UNION {{SearchGet(u.search),
                           Tampered(SearchGet(u.search), 1, 0)} : u \in urls} }

\* The runtime suspends the running invocation of fetch at an await (lines
\* 22, 36, 63, 96, 117) and runs the other one, or starts one.
Switch ==
    /\ req.pc \notin {"idle", "done", "thrown"}
    /\ req' = peer
    /\ peer' = req
    /\ UNCHANGED <<clock, secretData, bucket, issued>>

\* Two invocations of fetch interleaved at their awaits.
ConcNext ==
    \/ \E r \in ConcRequests(IssuedUrls) : Receive(r.pathname, r.search)
    \/ AssetsStart
    \/ AssetsRespond
    \/ GenerateStart
    \/ GenerateRespond
    \/ ProtectedMissing
    \/ ProtectedStart
    \/ ProtectedInvalid
    \/ ProtectedVerified
    \/ ProtectedRespond
    \/ Deny
    \/ Finish
    \/ Switch

SpecConc == Init /\ [][ConcNext]_vars

\* The client notes the outcome of a Protected request, once; `peer` keeps the
\* note while later requests run.
Remember ==
    /\ req.pc \in {"done", "thrown"}
    /\ req.branch = "protected"
    /\ peer.pc = "idle"
    /\ peer' = req
    /\ UNCHANGED <<clock, secretData, bucket, issued, req>>

\* Requests handled one at a time, the outcome of an earlier one kept for
\* comparison.
ReplayNext ==
    \/ \E r \in ConcRequests(IssuedUrls) : Receive(r.pathname, r.search)
    \/ AssetsStart
    \/ AssetsRespond
    \/ GenerateStart
    \/ GenerateRespond
    \/ ProtectedMissing
    \/ ProtectedStart
    \/ ProtectedInvalid
    \/ ProtectedVerified
    \/ ProtectedRespond
    \/ Deny
    \/ Finish
    \/ Remember

SpecReplay == Init /\ [][ReplayNext]_vars

\* ------------------------------------------------------------- properties
\* classify(path) of the specification, rules in order.
Classify(p) ==
    IF StartsWith(p, AssetsPrefix) THEN "Public"
    ELSE IF StartsWith(p, GeneratePrefix) THEN "Generate"
    ELSE IF StartsWith(p, UploadsPrefix) \/ StartsWith(p, InvoicesPrefix)
         THEN "Protected"
    ELSE "Denied"

\* The path asked for: url.pathname as it arrived (the Generate branch rewrites
\* url.pathname, const path keeps it).
RequestPath == IF req.pc = "importKey" THEN req.url.pathname ELSE req.path

\* The request has ended, with a response or with an exception.
Ended == req.pc \in {"done", "thrown"}

\* The ended request asked for a Protected path and carried the signed URL i
\* unchanged.
PresentsIssued(i) ==
    /\ req.pc = "done"
    /\ Classify(req.path) = "Protected"
    /\ req.path = i.pathname
    /\ req.url.search = i.search

\* The request was let through to the object store and answered from it.
Accepted ==
    /\ req.pc = "done"
    /\ req.response.status \in {200, 404}
    /\ req.gets = <<SubSeq(req.path, 2, Len(req.path))>>

\* Timestamp and MAC of the token the request carries.
PresentedTimestamp == ToNumber(TokenTimestamp(SearchGet(req.url.search)))

PresentedMac == BufferFromBase64(TokenHmac(SearchGet(req.url.search)))

\* The MAC of CanonicalMessage(request path, presented timestamp).
ExpectedMac ==
    SubtleSign(SecretKeyData(secretData),
               Encode(req.path \o NumberToString(PresentedTimestamp)))

InvalidMac == req.response = Forbidden("Invalid MAC")

\* C1 as stated: a token issued for p at clock t is accepted on p at every
\* clock t' with t <= t' <= t + EXPIRY, t the clock of the Generate request.
C1_RoundTripFromIssueClock ==
    \A i \in issued :
        PresentsIssued(i) =>
            /\ req.verified
            /\ (i.at <= req.now /\ req.now <= i.at + EXPIRY * MsPerSec)
                   => Accepted

\* C1 amended: a token issued for a Protected path p at clock t is accepted on
\* p at every clock t' with floor(t) <= t' <= floor(t) + EXPIRY, floor(t) the
\* issue clock truncated to whole seconds (the token's timestamp).
C1_RoundTrip ==
    \A i \in issued :
        PresentsIssued(i) =>
            /\ req.verified
            /\ ( /\ (i.at \div MsPerSec) * MsPerSec <= req.now
                 /\ req.now <= ((i.at \div MsPerSec) + EXPIRY) * MsPerSec )
                   => Accepted

\* A token issued half a second into a second is served at the last
\* millisecond of its window.
C1_Witness ==
    \E i \in issued :
        /\ PresentsIssued(i)
        /\ i.at % MsPerSec # 0
        /\ req.now = ((i.at \div MsPerSec) + EXPIRY) * MsPerSec
        /\ req.response.status = 200

\* C2 as stated: a Protected request carrying a token is accepted iff
\* timestamp <= now <= timestamp + EXPIRY and the MAC recomputed over the
\* request path and the timestamp equals the token's MAC.
C2_ValidIffWindowAndMac ==
    (Ended /\ Classify(req.path) = "Protected" /\ SearchHas(req.url.search)) =>
        (Accepted <=>
            /\ PresentedMac = ExpectedMac
            /\ PresentedTimestamp * MsPerSec <= req.now
            /\ req.now <= (PresentedTimestamp + EXPIRY) * MsPerSec)

\* C2 amended: a Protected request carrying a token is accepted iff the MAC
\* recomputed over the request path and the timestamp equals the token's MAC
\* and now > timestamp + EXPIRY is false; there is no lower bound on now.
C2_ValidIffMacAndNotExpired ==
    (Ended /\ Classify(req.path) = "Protected" /\ SearchHas(req.url.search)) =>
        (Accepted <=>
            /\ PresentedMac = ExpectedMac
            /\ \/ PresentedTimestamp = NaN
               \/ req.now <= (PresentedTimestamp + EXPIRY) * MsPerSec)

\* A token whose timestamp lies in the future is accepted.
C2_Witness ==
    /\ Ended
    /\ Classify(req.path) = "Protected"
    /\ SearchHas(req.url.search)
    /\ Accepted
    /\ PresentedTimestamp * MsPerSec > req.now

\* C3: a token issued for p at clock t and presented on p at t + EXPIRY + 1
\* seconds or later is answered 403 "URL expired" and the bucket is not asked.
C3_ExpiryBoundary ==
    \A i \in issued :
        (PresentsIssued(i) /\ req.now >= i.at + (EXPIRY + 1) * MsPerSec) =>
            /\ req.response = Expired(i.at \div MsPerSec)
            /\ req.gets = <<>>

C3_Witness ==
    \E i \in issued :
        /\ PresentsIssued(i)
        /\ req.now = i.at + (EXPIRY + 1) * MsPerSec
        /\ req.response.status = 403

\* C4: the unmodified token issued for p1, presented on a Protected path
\* p2 # p1, is answered 403 "Invalid MAC" at every clock.
C4_PathBinding ==
    \A i \in issued :
        ( /\ Ended
          /\ Classify(req.path) = "Protected"
          /\ req.path # i.pathname
          /\ req.url.search = i.search ) =>
            /\ InvalidMac
            /\ req.gets = <<>>

C4_Witness ==
    \E i \in issued :
        /\ Ended
        /\ Classify(req.path) = "Protected"
        /\ Classify(i.pathname) = "Protected"
        /\ req.path # i.pathname
        /\ req.url.search = i.search
        /\ InvalidMac

\* The request carries the timestamp of signed URL i with another MAC of the
\* same length.
PresentsTampered(i) ==
    /\ Ended
    /\ Classify(req.path) = "Protected"
    /\ req.path = i.pathname
    /\ SearchHas(req.url.search)
    /\ TokenTimestamp(SearchGet(req.url.search))
           = TokenTimestamp(SearchGet(i.search))
    /\ PresentedMac # TypeError
    /\ Len(PresentedMac) = MacLen
    /\ PresentedMac # BufferFromBase64(TokenHmac(SearchGet(i.search)))

\* C5: an issued token whose MAC is replaced by a different MAC of the same
\* length is answered 403 "Invalid MAC" at every clock, the clock is not
\* read and no object is fetched.
C5_TamperDetection ==
    \A i \in issued :
        PresentsTampered(i) =>
            /\ InvalidMac
            /\ req.expiryChecks = 0
            /\ req.gets = <<>>

\* The last bit of the MAC is flipped.
C5_Witness ==
    \E i \in issued :
        /\ PresentsTampered(i)
        /\ SearchGet(req.url.search) = Tampered(SearchGet(i.search), MacLen, 7)
        /\ InvalidMac

\* C6: no request to a Protected path ends in an exception.
C6_NoUnhandledFault ==
    Classify(RequestPath) = "Protected" => req.pc # "thrown"

\* Verification of the request returned Ok: a token is present, its MAC
\* matches and it has not expired at the clock read.
VerificationOk ==
    /\ SearchHas(req.url.search)
    /\ req.verified
    /\ PresentedMac = ExpectedMac
    /\ req.now <= (PresentedTimestamp + EXPIRY) * MsPerSec

\* C7: on a Protected path the bucket is asked only after verification
\* returned Ok, and a request that fails verification never asks it.
C7_VerifyBeforeFetch ==
    (req.pc # "idle" /\ Classify(RequestPath) = "Protected") =>
        /\ req.gets # <<>> => VerificationOk
        /\ (req.pc = "thrown" \/ req.response.status = 403) => req.gets = <<>>

C7_Witness ==
    /\ Classify(RequestPath) = "Protected"
    /\ req.pc = "protectedGet"
    /\ req.gets # <<>>
    /\ VerificationOk

\* C8: a path matching no prefix is answered 403 "Access denied" whatever its
\* query; verify is not called, the clock is not read, the bucket is not asked.
C8_UnmatchedPath ==
    (req.pc # "idle" /\ Classify(RequestPath) = "Denied") =>
        /\ req.pc \in {"importKey", "done"}
        /\ req.pc = "done" => req.response = Forbidden("Access denied")
        /\ req.verifyCalls = 0
        /\ req.expiryChecks = 0
        /\ req.gets = <<>>

\* Denied although the query carries a signed URL's own token.
C8_Witness ==
    \E i \in issued :
        /\ req.pc = "done"
        /\ Classify(RequestPath) = "Denied"
        /\ req.url.search = i.search
        /\ req.response = Forbidden("Access denied")

\* C9: a path under /assets/ is answered from the bucket alone, 200 when the
\* key exists and 404 when it does not, whatever the verify parameter; verify
\* is not called and the clock is not read.
C9_PublicBypass ==
    (req.pc # "idle" /\ Classify(RequestPath) = "Public") =>
        /\ req.pc \in {"importKey", "assetsGet", "done"}
        /\ req.verifyCalls = 0
        /\ req.expiryChecks = 0
        /\ req.pc = "done" =>
            /\ req.gets = <<SubSeq(req.path, 2, Len(req.path))>>
            /\ req.response.status
                   = (IF SubSeq(req.path, 2, Len(req.path)) \in bucket
                      THEN 200 ELSE 404)
            /\ req.response.status = 200 =>
                   /\ req.response.object = SubSeq(req.path, 2, Len(req.path))
                   /\ req.response.cache = "public, max-age=86400"

\* Served with a tampered token in the query.
C9_Witness ==
    \E i \in issued :
        /\ req.pc = "done"
        /\ Classify(RequestPath) = "Public"
        /\ req.url.search
               = SearchSet(<<>>, Tampered(SearchGet(i.search), MacLen, 7))
        /\ req.response.status = 200

\* The branch of the handler a policy names.
BranchOf(policy) ==
    IF policy = "Public" THEN "assets"
    ELSE IF policy = "Generate" THEN "generate"
    ELSE IF policy = "Protected" THEN "protected"
    ELSE "deny"

\* C10: the branch the handler takes is the one classify(path) names, for
\* every query, clock and secret.
C10_Classification ==
    req.pc \notin {"idle", "importKey"} =>
        /\ req.branch = BranchOf(Classify(req.path))
        /\ req.branch = "assets" => req.pc \in {"assetsGet", "done"}
        /\ req.branch = "generate" => req.pc \in {"sign", "done"}
        /\ req.branch = "protected" =>
               req.pc \in {"verify", "protectedGet", "done", "thrown"}
        /\ req.branch = "deny" => req.pc = "done"

\* /generate/assets/a has taken the Generate branch.
C10_Witness ==
    /\ req.pc = "done"
    /\ req.path = GeneratePrefix \o Tail(AssetsPrefix) \o <<"a">>
    /\ req.branch = "generate"
    /\ req.response.status = 200

\* C11: with no secret bound the handler signs and verifies with the default
\* key; the key imported is the encoded secret read at entry; a token
\* presented under the key it was signed with passes the MAC check, and under
\* any other key it is answered 403 "Invalid MAC".
C11_SecretFallback ==
    /\ req.pc # "idle" =>
           req.secretKeyData
               = Encode(IF secretData = Undefined THEN DefaultSecret
                        ELSE secretData)
    /\ req.pc \notin {"idle", "importKey"} => req.key = req.secretKeyData
    /\ \A i \in issued :
           PresentsIssued(i) =>
               IF i.key = req.key THEN req.verified ELSE InvalidMac

\* A token issued with no secret bound is served with no secret bound.
C11_Witness ==
    \E i \in issued :
        /\ PresentsIssued(i)
        /\ secretData = Undefined
        /\ i.key = Encode(DefaultSecret)
        /\ req.key = i.key
        /\ req.response.status = 200

\* A token issued under one secret is refused under another.
C11_CrossSecret ==
    \E i \in issued :
        /\ PresentsIssued(i)
        /\ i.key # req.key
        /\ InvalidMac

\* C12: an object-store read for a Protected path P at clock now happens only
\* if a token was issued for exactly the path P with a timestamp ts and
\* now <= ts + EXPIRY.
C12_TimeLimitedPathExact ==
    (Accepted /\ Classify(req.path) = "Protected") =>
        \E i \in issued :
            /\ i.pathname = req.path
            /\ req.now <= (Timestamp(i.at) + EXPIRY) * MsPerSec

\* A verify value in the strict token form: split on the first "-", a
\* canonical non-negative decimal timestamp, and a mac part that is the
\* standard base64 text of exactly MacLen bytes.
WellFormed(v) ==
    LET k == FirstIndex(v, {"-"})
        ts == SubSeq(v, 1, k - 1)
        mac == SubSeq(v, k + 1, Len(v))
    IN  /\ k > 1
        /\ \A i \in 1..Len(ts) : IsDigit(ts[i])
        /\ DecimalString(DigitsValue(ts)) = ts
        /\ \A i \in 1..Len(mac) : mac[i] \in Base64Set \cup {"="}
        /\ Len(BufferFromBase64(mac)) = MacLen
        /\ Base64Encode(BufferFromBase64(mac)) = mac

\* C13: a verify parameter that is not in the strict token form is answered
\* exactly as a MAC mismatch, never served.
C13_StrictParsing ==
    ( /\ Ended
      /\ Classify(req.path) = "Protected"
      /\ SearchHas(req.url.search)
      /\ ~WellFormed(SearchGet(req.url.search)) ) => InvalidMac

\* C14: on a Protected path the outcome is decided in the order missing
\* token, token parse, MAC, expiry, Ok: without a verify parameter the answer
\* is 403 "Authentication required" and nothing is verified; a parse failure
\* ends the request before the MAC is verified; a wrong MAC is answered 403
\* "Invalid MAC" with the expiry never looked at, expired or not; "URL
\* expired" is answered only for a MAC that is correct; the object is asked
\* for only after both checks.
C14_CheckOrder ==
    (Ended /\ Classify(req.path) = "Protected") =>
        /\ ~SearchHas(req.url.search) =>
               /\ req.response = Forbidden("Authentication required")
               /\ req.verifyCalls = 0
               /\ req.expiryChecks = 0
        /\ (SearchHas(req.url.search) /\ req.pc = "thrown") =>
               /\ req.verifyCalls = 0
               /\ req.expiryChecks = 0
        /\ (SearchHas(req.url.search) /\ req.pc = "done"
                /\ PresentedMac # ExpectedMac) =>
               /\ InvalidMac
               /\ req.verifyCalls = 1
               /\ req.expiryChecks = 0
        /\ req.response.reason = "URL expired at" =>
               /\ PresentedMac = ExpectedMac
               /\ req.verifyCalls = 1
               /\ req.expiryChecks = 1
        /\ req.gets # <<>> =>
               /\ req.verified
               /\ req.verifyCalls = 1
               /\ req.expiryChecks = 1

\* A token that is expired and carries a wrong MAC is answered "Invalid MAC".
C14_Witness ==
    /\ req.pc = "done"
    /\ Classify(req.path) = "Protected"
    /\ SearchHas(req.url.search)
    /\ PresentedTimestamp # NaN
    /\ PresentedMac # ExpectedMac
    /\ clock > (PresentedTimestamp + EXPIRY) * MsPerSec
    /\ InvalidMac

\* C15: a request is at one of the positions of Start -> Classify -> {
\* PublicFetch | GenerateAndRespond | VerifyThenFetch | Deny } -> Respond, has
\* asked the bucket at most once, and once ended has produced a response.
C15_RequestStateMachine ==
    /\ Len(req.gets) <= 1
    /\ (req.pc \in {"idle", "importKey", "assetsGet", "sign", "verify",
                    "protectedGet"}) => req.response = NoResponse
    /\ Ended => req.response.status \in {200, 403, 404}

\* The response fetch gives to request r when run alone with secret `secret`,
\* bucket contents `objects` and the clock reading `now`; NoResponse stands for
\* the exception.
ResponseAlone(r, secret, objects, now) ==
    LET key == ImportKey(SecretKeyData(secret))
        branch == Branch(r.pathname, r.pathname)
        pathname == ReplaceFirst(r.pathname, GeneratePrefix, <<"/">>)
        mac == SubtleSign(key, Encode(DataToAuthenticate(pathname, Timestamp(now))))
        url == [pathname |-> pathname,
                search |-> SearchSet(r.search, TokenText(Timestamp(now), mac))]
        verify == SearchGet(r.search)
        assertedTimestamp == ToNumber(TokenTimestamp(verify))
        receivedMac == BufferFromBase64(TokenHmac(verify))
    IN  CASE branch = "assets" ->
                 ObjectResponse(objects, ObjectKey(r.pathname),
                                "public, max-age=86400")
          [] branch = "generate" -> Response(200, "", <<>>, "", url, 0)
          [] branch = "protected" ->
                 IF ~SearchHas(r.search)
                 THEN Forbidden("Authentication required")
                 ELSE IF receivedMac = TypeError THEN NoResponse
                 ELSE IF ~SubtleVerify(key, receivedMac,
                             Encode(DataToAuthenticate(r.pathname,
                                                       assertedTimestamp)))
                 THEN Forbidden("Invalid MAC")
                 ELSE IF IsExpired(now, assertedTimestamp)
                 THEN Expired(assertedTimestamp)
                 ELSE ObjectResponse(objects, ObjectKey(r.pathname),
                                     "private, no-store")
          [] OTHER -> Forbidden("Access denied")

\* C16: with two requests interleaved at their awaits, each one holds the key
\* of the secret it read, and ends with the response it gives when run alone
\* with the same clock reading, secret and bucket.
C16_RequestIndependence ==
    \A r \in {req, peer} :
        /\ r.pc # "idle" => r.secretKeyData = SecretKeyData(secretData)
        /\ r.pc \notin {"idle", "importKey"} =>
               /\ r.key = ImportKey(SecretKeyData(secretData))
               /\ r.path = r.request.pathname
        /\ r.pc \in {"done", "thrown"} =>
               r.response = ResponseAlone(r.request, secretData, bucket, r.now)

\* A Protected request was verified and served while a Generate request that
\* had read the clock before it was still waiting for its signature.
C16_Witness ==
    /\ req.pc = "done"
    /\ Classify(req.path) = "Protected"
    /\ req.response.status = 200
    /\ peer.pc = "sign"
    /\ peer.now < req.now

\* C17: no request changes the bucket; a Protected request presented again
\* with the same path and token at the same clock reading ends as it did
\* before; and a token that was served is served again at every later clock
\* reading up to timestamp + EXPIRY.
C17_StatelessReplay ==
    /\ bucket = BucketKeys
    /\ (Ended /\ peer.pc # "idle" /\ req.request = peer.request) =>
           /\ req.now = peer.now =>
                  (req.pc = peer.pc /\ req.response = peer.response)
           /\ ( /\ peer.response.status = 200
                /\ req.pc = "done"
                /\ req.now <= (PresentedTimestamp + EXPIRY) * MsPerSec ) =>
                  req.response = peer.response

\* A signed URL served once is served again at a later clock reading.
C17_Witness ==
    /\ req.pc = "done"
    /\ peer.pc = "done"
    /\ req.request = peer.request
    /\ peer.response.status = 200
    /\ req.response.status = 200
    /\ req.now > peer.now

\* The key begins with uploads/ or invoices/.
ProtectedKey(key) ==
    \/ StartsWith(key, Substring1(UploadsPrefix))
    \/ StartsWith(key, Substring1(InvoicesPrefix))

\* C18: every key the bucket is asked for is the request path without its
\* leading slash and begins with assets/, uploads/ or invoices/; a key under
\* uploads/ or invoices/ is asked for only by a Protected request whose
\* verification returned Ok, never by a request to /assets/ or /generate/.
C18_KeyConfinement ==
    \A k \in 1..Len(req.gets) :
        /\ req.gets[k] = SubSeq(req.request.pathname, 2,
                                Len(req.request.pathname))
        /\ \/ StartsWith(req.gets[k], Substring1(AssetsPrefix))
           \/ ProtectedKey(req.gets[k])
        /\ ProtectedKey(req.gets[k]) =>
               /\ Classify(req.request.pathname) = "Protected"
               /\ VerificationOk

\* An object under uploads/ read and served for a verified request.
C18_Witness ==
    /\ req.pc = "done"
    /\ req.gets = <<SubSeq(UploadsPrefix, 2, Len(UploadsPrefix)) \o <<"a">>>>
    /\ req.response.status = 200
    /\ VerificationOk

\* "/<rest>" of a path "/generate/<rest>".
GenerateTarget(p) == <<"/">> \o SubSeq(p, Len(GeneratePrefix) + 1, Len(p))

\* C19: a request to /generate/<rest> never asks the bucket, never verifies
\* and never throws, whatever <rest> is; it is answered 200 with the URL
\* "/<rest>" carrying the token of the MAC over "/<rest>" and the whole second
\* of the clock read; and while the signed URL held is for a path that is not
\* Protected, no Protected request passes verification.
C19_GenerateUnconditional ==
    /\ Classify(req.request.pathname) = "Generate" =>
           /\ req.gets = <<>>
           /\ req.verifyCalls = 0
           /\ req.expiryChecks = 0
           /\ req.pc # "thrown"
           /\ req.pc = "done" =>
                  LET target == GenerateTarget(req.request.pathname)
                      ts == req.now \div MsPerSec
                      mac == SubtleSign(ImportKey(SecretKeyData(secretData)),
                                        Encode(target \o DecimalString(ts)))
                  IN  /\ req.response.status = 200
                      /\ req.response.url.pathname = target
                      /\ SearchHas(req.response.url.search)
                      /\ SearchGet(req.response.url.search)
                             = DecimalString(ts) \o <<"-">> \o Base64Encode(mac)
    /\ (\A i \in issued : Classify(i.pathname) # "Protected") =>
           ~(Classify(req.request.pathname) = "Protected"
                 /\ (req.verified \/ req.gets # <<>>))

\* A signed URL for /assets/a, a path that is not Protected, issued at a clock
\* reading that is not a whole second.
C19_Witness ==
    /\ req.pc = "done"
    /\ Classify(req.request.pathname) = "Generate"
    /\ Classify(GenerateTarget(req.request.pathname)) = "Public"
    /\ req.response.status = 200
    /\ req.now % MsPerSec # 0
    /\ \E i \in issued : i.pathname = req.response.url.pathname
                         /\ i.search = req.response.url.search

====
